---- MODULE Spec2Model ----
(***************************************************************************)
(* A model of guido.py, the MMEJ guide predictor: get_cut_sites ->         *)
(* simulate_end_joining -> evaluate_guides, as main() runs them.           *)
(*                                                                         *)
(* Strings are sequences of one-character strings, 1-based in TLA+ and     *)
(* 0-based in Python: every index stored in the state is the Python index. *)
(* Python slices are modelled with their clamping and their negative       *)
(* indices (Slice).  Scores are kept exactly, in tenths: pattern_score is  *)
(* 100 * round(exp(-d/w), 3) * weight, a multiple of 0.1.                  *)
(***************************************************************************)
EXTENDS Integers, Sequences, FiniteSets, TLC

(* ------------------------------ bounds --------------------------------- *)

\* longest A/C stretch upstream of the GG of an input sequence (Spec)
MaxUpstream == 6
\* longest tail downstream of the GG of an input sequence (Spec)
MaxDownstream == 2
\* largest min_flanking_length / max_flanking_length drawn (Spec)
MaxFlank == 3
\* longest left arm / right arm of a cut site handed to simulate_end_joining (SpecEJ)
MaxLeft == 5
MaxRight == 4

(* --------------------------- program constants -------------------------- *)

\* the guide is the 20 bases upstream of the PAM (sequence[pam-20: ...])
GuideLen == 20
\* k-mer starting length
min_kmer_length == 2

(* ------------------------------ strings -------------------------------- *)

Min(a, b) == IF a < b THEN a ELSE b
Max(a, b) == IF a > b THEN a ELSE b

\* a Python slice bound: negative counts from the end, then clamped to 0..n
SliceIndex(i, n) == IF i < 0 THEN Max(i + n, 0) ELSE Min(i, n)

\* s[a:b]
Slice(s, a, b) ==
  LET lo == SliceIndex(a, Len(s))
      hi == SliceIndex(b, Len(s))
  IN  IF lo >= hi THEN << >> ELSE SubSeq(s, lo + 1, hi)

\* s[a:]
SliceFrom(s, a) == SubSeq(s, SliceIndex(a, Len(s)) + 1, Len(s))

\* s[:b]
SliceTo(s, b) == SubSeq(s, 1, SliceIndex(b, Len(s)))

\* s[::-1]
Reversed(s) == [i \in 1..Len(s) |-> s[Len(s) + 1 - i]]

\* sub occurs in s starting at Python index i
OccursAt(sub, s, i) ==
  /\ i >= 0
  /\ i + Len(sub) <= Len(s)
  /\ \A j \in 1..Len(sub) : s[i + j] = sub[j]

\* sub in s
Contains(s, sub) == \E i \in 0..Len(s) : OccursAt(sub, s, i)

\* s.find(sub): the first index at which sub occurs, -1 when it does not
Find(s, sub) ==
  IF Contains(s, sub)
  THEN CHOOSE i \in 0..Len(s) :
         /\ OccursAt(sub, s, i)
         /\ \A j \in 0..(i - 1) : ~OccursAt(sub, s, j)
  ELSE -1

\* [m.start() for m in re.compile(pattern).finditer(s)] for a literal pattern:
\* the scan resumes after the end of each match, so matches never overlap
RECURSIVE FindIterFrom(_, _, _)
FindIterFrom(pattern, s, pos) ==
  IF pos + Len(pattern) > Len(s) THEN << >>
  ELSE IF OccursAt(pattern, s, pos)
       THEN <<pos>> \o FindIterFrom(pattern, s, pos + Max(Len(pattern), 1))
       ELSE FindIterFrom(pattern, s, pos + 1)

FindIter(pattern, s) == FindIterFrom(pattern, s, 0)

\* the elements of a list, as a set
Range(s) == {s[i] : i \in 1..Len(s)}

\* all strings over an alphabet of length at most n
SeqsUpTo(alphabet, n) == UNION {[1..k -> alphabet] : k \in 0..n}

(* ---------------------------- find_breaks ------------------------------ *)

iupac_dict ==
  [letter \in {"A","C","G","T","R","Y","S","W","K","M","B","D","H","V","N"} |->
     CASE letter = "A" -> {"A"}
       [] letter = "C" -> {"C"}
       [] letter = "G" -> {"G"}
       [] letter = "T" -> {"T"}
       [] letter = "R" -> {"A","G"}
       [] letter = "Y" -> {"C","T"}
       [] letter = "S" -> {"G","C"}
       [] letter = "W" -> {"A","T"}
       [] letter = "K" -> {"G","T"}
       [] letter = "M" -> {"A","C"}
       [] letter = "B" -> {"C","G","T"}
       [] letter = "D" -> {"A","G","T"}
       [] letter = "H" -> {"A","C","T"}
       [] letter = "V" -> {"A","C","G"}
       [] letter = "N" -> {"A","C","G","T"}]

complement == [base \in {"A","C","G","T"} |->
                 CASE base = "A" -> "T" [] base = "C" -> "G"
                   [] base = "G" -> "C" [] base = "T" -> "A"]

\* the lookups iupac_dict[letter] and complement[base] raise KeyError on a
\* letter that is not a key
RaisesKeyError(sequence, pam) ==
  \/ \E i \in 1..Len(pam) : pam[i] \notin DOMAIN iupac_dict
  \/ \E i \in 1..Len(sequence) : sequence[i] \notin DOMAIN complement

rev_seq(sequence) == [i \in 1..Len(sequence) |-> complement[Reversed(sequence)[i]]]

\* the expanded PAM, a sequence of character classes, matches at index i
PamMatchesAt(pam, sequence, i) ==
  /\ i + Len(pam) <= Len(sequence)
  /\ \A j \in 1..Len(pam) : sequence[i + j] \in iupac_dict[pam[j]]

\* the lookahead (?=(pam)) matches the empty string at every index where the
\* PAM starts, so m.start(0) = m.end(0) = that index and matches may overlap
RECURSIVE PamHitsFrom(_, _, _, _)
PamHitsFrom(pam, sequence, min_flanking_length, i) ==
  IF i > Len(sequence) THEN << >>
  ELSE (IF /\ PamMatchesAt(pam, sequence, i)
           /\ i - min_flanking_length > 0
           /\ i + min_flanking_length < Len(sequence)
        THEN <<i>> ELSE << >>)
       \o PamHitsFrom(pam, sequence, min_flanking_length, i + 1)

PamHits(pam, sequence, min_flanking_length) ==
  PamHitsFrom(pam, sequence, min_flanking_length, 0)

\* the left edge of the window, clipped at 0
WindowLeft(br, max_flanking_length) ==
  IF br - max_flanking_length < 0 THEN 0 ELSE br - max_flanking_length

\* sequence[pam-20:pam+pam_len]
GuideOf(sequence, pam, pam_len) == Slice(sequence, pam - GuideLen, pam + pam_len)

\* one record of break_dict, for the PAM hit at index pam
BreakRecord(sequence, pam, pam_len, max_flanking_length, strand) ==
  LET br    == pam - pam_len
      left  == WindowLeft(br, max_flanking_length)
      right == br + max_flanking_length
  IN  [rel_break |-> br - left,
       break     |-> br,
       seq       |-> Slice(sequence, left, right),
       pam       |-> Slice(sequence, pam, pam + pam_len),
       guide     |-> GuideOf(sequence, pam, pam_len),
       strand    |-> strand]

break_dict(sequence, pams, pam_len, max_flanking_length, strand) ==
  [i \in 1..Len(pams) |->
     BreakRecord(sequence, pams[i], pam_len, max_flanking_length, strand)]

find_breaks(sequence, min_flanking_length, max_flanking_length, pam) ==
  LET rev == rev_seq(sequence)
  IN  break_dict(sequence, PamHits(pam, sequence, min_flanking_length),
                 Len(pam), max_flanking_length, "+")
      \o break_dict(rev, PamHits(pam, rev, min_flanking_length),
                    Len(pam), max_flanking_length, "-")

\* d.update(new): the keys of new replace or extend those of d
Update(d, new) == new @@ d

\* region = (chromosome, start, end, seq)
get_cut_sites(region, min_flanking_length, max_flanking_length, pam) ==
  LET cuts == find_breaks(region[4], min_flanking_length, max_flanking_length, pam)
  IN  [i \in 1..Len(cuts) |->
         LET break_abs == cuts[i].break + region[2]
         IN  Update(cuts[i],
                    [break_abs |-> break_abs,
                     guide_loc |-> <<region[1], break_abs - 17,
                                     break_abs + 3 + Len(pam)>>])]

\* main(), option -i: the region of a sequence read from a file
SequenceRegion(seq) == <<"sequence", 1, Len(seq), seq>>

(* ------------------------ find_microhomologies ------------------------- *)

\* the inner loop, for i in range(len(left_seq) - k + 1), from index i on
RECURSIVE KmersFrom(_, _, _, _)
KmersFrom(left_seq, right_seq, k, i) ==
  IF i >= Len(left_seq) - k + 1 THEN << >>
  ELSE LET kmer == Slice(left_seq, i, i + k)
       IN  (IF Contains(right_seq, kmer) THEN <<kmer>> ELSE << >>)
           \o KmersFrom(left_seq, right_seq, k, i + 1)

\* the first k-mer length tried: reversed(xrange(min_kmer_length, len(left_seq)))
\* starts at len(left_seq) - 1
LongestKmer(left_seq) == Len(left_seq) - 1

\* the outer loop, from length k down to min_kmer_length
RECURSIVE KmersDownFrom(_, _, _)
KmersDownFrom(left_seq, right_seq, k) ==
  IF k < min_kmer_length THEN << >>
  ELSE KmersFrom(left_seq, right_seq, k, 0)
       \o KmersDownFrom(left_seq, right_seq, k - 1)

find_microhomologies(left_seq, right_seq) ==
  KmersDownFrom(left_seq, right_seq, LongestKmer(left_seq))

(* ------------------------ simulate_end_joining ------------------------- *)

\* the values --length-weight takes in the model, as written on the command line
LengthWeights == {"0.5", "20.0"}

\* 1000 * round(1 / math.exp(d / 0.5), 3) for d = 0, 1, ...; 0 from d = 4 on
ExpTableHalf == <<1000, 135, 18, 2>>

\* 1000 * round(1 / math.exp(d / 20.0), 3) for d = 0 .. 40
ExpTableTwenty ==
  <<1000, 951, 905, 861, 819, 779, 741, 705, 670, 638, 607, 577, 549, 522,
    497, 472, 449, 427, 407, 387, 368, 350, 333, 317, 301, 287, 273, 259,
    247, 235, 223, 212, 202, 192, 183, 174, 165, 157, 150, 142, 135>>

\* length_factor, in thousandths
LengthFactor(deletion_length, length_weight) ==
  IF length_weight = "0.5"
  THEN IF deletion_length < Len(ExpTableHalf)
       THEN ExpTableHalf[deletion_length + 1] ELSE 0
  ELSE ExpTableTwenty[deletion_length + 1]

\* len(re.findall('G', pattern)) + len(re.findall('C', pattern))
PatternGC(pattern) == Cardinality({i \in 1..Len(pattern) : pattern[i] \in {"G", "C"}})

\* pattern_score, in tenths
PatternScore(pattern, deletion_length, length_weight) ==
  LengthFactor(deletion_length, length_weight)
    * ((Len(pattern) - PatternGC(pattern)) + (PatternGC(pattern) * 2))

\* the frame taken modulo 2 instead of modulo 3
FrameShiftMutant(deletion_length) == IF deletion_length % 2 = 0 THEN "-" ELSE "+"

\* "-" is in frame, "+" is out of frame
FrameShift(deletion_length) == IF deletion_length % 3 = 0 THEN "-" ELSE "+"

\* c * n
Repeat(c, n) == [i \in 1..n |-> c]

\* the pattern_dict of one combination (left_seq_pos, right_seq_pos)
PatternDict(left_seq, right_seq, pattern, left_seq_pos, right_seq_pos, length_weight) ==
  LET left_deletion_length  == Len(left_seq) - left_seq_pos
      right_deletion_length == right_seq_pos
      deletion_length == left_deletion_length + right_deletion_length
      deletion_seq == SliceFrom(left_seq, left_seq_pos) \o SliceTo(right_seq, right_seq_pos)
  IN  [left      |-> SliceTo(left_seq, left_seq_pos) \o Repeat("-", left_deletion_length),
       left_seq  |-> SliceTo(left_seq, left_seq_pos),
       left_seq_position  |-> left_seq_pos,
       right     |-> Repeat("+", right_deletion_length) \o SliceFrom(right_seq, right_seq_pos),
       right_seq |-> SliceFrom(right_seq, right_seq_pos),
       right_seq_position |-> left_seq_pos + Len(deletion_seq),
       pattern   |-> pattern,
       pattern_score |-> PatternScore(pattern, deletion_length, length_weight),
       deletion_seq  |-> deletion_seq,
       frame_shift   |-> FrameShift(deletion_length)]

\* list(itertools.product(left_positions, right_positions))
Product(left_positions, right_positions) ==
  [k \in 1..(Len(left_positions) * Len(right_positions)) |->
     <<left_positions[((k - 1) \div Len(right_positions)) + 1],
       right_positions[((k - 1) % Len(right_positions)) + 1]>>]

\* the pattern_dicts one pattern appends to cut['pattern_list']
OutcomesOfPattern(left_seq, right_seq, pattern, length_weight) ==
  LET pos_combinations == Product(FindIter(pattern, left_seq), FindIter(pattern, right_seq))
  IN  [k \in 1..Len(pos_combinations) |->
         PatternDict(left_seq, right_seq, pattern,
                     pos_combinations[k][1], pos_combinations[k][2], length_weight)]

\* cut['pattern_list'] after the loop over patterns, from patterns[i] on
RECURSIVE OutcomesFrom(_, _, _, _, _)
OutcomesFrom(left_seq, right_seq, patterns, length_weight, i) ==
  IF i > Len(patterns) THEN << >>
  ELSE OutcomesOfPattern(left_seq, right_seq, patterns[i], length_weight)
       \o OutcomesFrom(left_seq, right_seq, patterns, length_weight, i + 1)

\* a list without the repetitions of its elements
RECURSIVE FirstOccurrences(_, _)
FirstOccurrences(list, i) ==
  IF i > Len(list) THEN << >>
  ELSE (IF \E j \in 1..(i - 1) : list[j] = list[i] THEN << >> ELSE <<list[i]>>)
       \o FirstOccurrences(list, i + 1)

\* the list used as generated, repetitions kept
UniquePatternDictsMutant(pattern_list) == pattern_list

\* [dict(t) for t in set([tuple(sorted(d.items())) for d in cut['pattern_list']])]:
\* equal dictionaries collapse to one.  The order in which Python iterates the
\* set is that of its hash table; the model lists first occurrences.
UniquePatternDicts(pattern_list) == FirstOccurrences(pattern_list, 1)

\* list with x inserted after the last element whose score is <= x's
RECURSIVE InsertByScore(_, _)
InsertByScore(list, x) ==
  IF list = << >> THEN <<x>>
  ELSE IF list[Len(list)].pattern_score <= x.pattern_score
       THEN Append(list, x)
       ELSE Append(InsertByScore(SubSeq(list, 1, Len(list) - 1), x), list[Len(list)])

\* sorted(list, key=lambda x: x['pattern_score']), a stable sort
RECURSIVE SortedByScore(_)
SortedByScore(list) ==
  IF list = << >> THEN << >>
  ELSE InsertByScore(SortedByScore(SubSeq(list, 1, Len(list) - 1)), list[Len(list)])

\* what the inner loop appends to pass_array for x: False when pattern_dict's
\* pattern is a proper substring of x's and, placed at the first offset at
\* which it occurs in x's pattern, it sits where pattern_dict is in both arms
PassesAgainst(pattern_dict, x) ==
  IF Contains(x.pattern, pattern_dict.pattern) /\ pattern_dict.pattern # x.pattern
  THEN LET offset_pattern == Find(x.pattern, pattern_dict.pattern)
           offset_left  == pattern_dict.left_seq_position
                             - (x.left_seq_position + offset_pattern)
           offset_right == pattern_dict.right_seq_position
                             - (x.right_seq_position + offset_pattern)
       IN  ~(offset_left = 0 /\ offset_right = 0)
  ELSE TRUE

\* the test inverted: kept when some comparison fails
KeepPatternMutant(pattern_dict, pattern_list) ==
  ~(\A i \in 1..Len(pattern_list) : PassesAgainst(pattern_dict, pattern_list[i]))

\* all(pass_array)
KeepPattern(pattern_dict, pattern_list) ==
  \A i \in 1..Len(pattern_list) : PassesAgainst(pattern_dict, pattern_list[i])

\* the loop over sorted(pattern_list): pattern_list_filtered, from ordered[i] on
RECURSIVE FilteredFrom(_, _, _)
FilteredFrom(ordered, pattern_list, i) ==
  IF i > Len(ordered) THEN << >>
  ELSE (IF KeepPattern(ordered[i], pattern_list) THEN <<ordered[i]>> ELSE << >>)
       \o FilteredFrom(ordered, pattern_list, i + 1)

\* the nested-match filter over a de-duplicated list
FilterNested(pattern_list) == FilteredFrom(SortedByScore(pattern_list), pattern_list, 1)

LeftArm(cut)  == SliceTo(cut.seq, cut.rel_break)
RightArm(cut) == SliceFrom(cut.seq, cut.rel_break)

\* the body of the loop over cut_list, for one cut: the two arms, the patterns
\* found, the pattern_list generated from them, and the pattern_list retained
SimulateCut(cut, length_weight) ==
  LET left_seq  == LeftArm(cut)
      right_seq == RightArm(cut)
      found     == find_microhomologies(left_seq, right_seq)
      all       == OutcomesFrom(left_seq, right_seq, found, length_weight, 1)
  IN  [left_seq  |-> left_seq,
       right_seq |-> right_seq,
       patterns  |-> found,
       generated |-> all,
       retained  |-> FilterNested(UniquePatternDicts(all))]

(* --------------------------- evaluate_guides --------------------------- *)

\* list with x inserted after the last element whose score is >= x's
RECURSIVE InsertByScoreDescending(_, _)
InsertByScoreDescending(list, x) ==
  IF list = << >> THEN <<x>>
  ELSE IF list[Len(list)].pattern_score >= x.pattern_score
       THEN Append(list, x)
       ELSE Append(InsertByScoreDescending(SubSeq(list, 1, Len(list) - 1), x),
                   list[Len(list)])

\* sorted(list, key=lambda x: x['pattern_score'], reverse=True): stable as well
RECURSIVE SortedByScoreDescending(_)
SortedByScoreDescending(list) ==
  IF list = << >> THEN << >>
  ELSE InsertByScoreDescending(SortedByScoreDescending(SubSeq(list, 1, Len(list) - 1)),
                               list[Len(list)])

\* sorted_pattern_list
TopPatterns(cut_site, n_patterns) ==
  SliceTo(SortedByScoreDescending(cut_site.pattern_list), n_patterns)

\* score after the loop over sorted_pattern_list
RECURSIVE SumScore(_)
SumScore(list) ==
  IF list = << >> THEN 0
  ELSE list[Len(list)].pattern_score + SumScore(SubSeq(list, 1, Len(list) - 1))

\* oof_score after the loop over sorted_pattern_list
RECURSIVE OofScore(_)
OofScore(list) ==
  IF list = << >> THEN 0
  ELSE (IF list[Len(list)].frame_shift = "+" THEN list[Len(list)].pattern_score ELSE 0)
       + OofScore(SubSeq(list, 1, Len(list) - 1))

\* 'N' in cut_site['seq']
HasN(cut_site) == \E i \in 1..Len(cut_site.seq) : cut_site.seq[i] = "N"

\* variants_in_guide
VariantsInGuide(cut_site, variants) ==
  LET guide_start == cut_site.guide_loc[2]
      guide_end   == cut_site.guide_loc[3]
      Inside(var) == guide_start <= var.start /\ guide_end >= var.end
  IN  SelectSeq(variants, Inside)

\* oof_score / score * 100 divides by score
RaisesZeroDivision(cut_site, n_patterns) ==
  SumScore(TopPatterns(cut_site, n_patterns)) = 0

\* the else-branch of the loop of evaluate_guides for one cut site whose score
\* is not 0.  complete_score, oof_score / score * 100, is kept as the exact
\* quotient <<numerator, denominator>>.
EvaluatedCut(cut_site, n_patterns, variants) ==
  LET sorted_pattern_list == TopPatterns(cut_site, n_patterns)
      score               == SumScore(sorted_pattern_list)
      oof_score           == OofScore(sorted_pattern_list)
      variants_in_guide   == VariantsInGuide(cut_site, variants)
  IN  Update(cut_site,
             [complete_score |-> <<oof_score * 100, score>>,
              sum_score      |-> score,
              variants       |-> variants_in_guide,
              top_patterns   |-> sorted_pattern_list,
              wt_prob        |-> IF variants_in_guide # << >>
                                 THEN Len(variants_in_guide) ELSE 1])

\* the index of the first cut site at which evaluate_guides raises, 0 if none
FirstRaising(sites, n_patterns) ==
  LET raising == {i \in 1..Len(sites) :
                    ~HasN(sites[i]) /\ RaisesZeroDivision(sites[i], n_patterns)}
  IN  IF raising = {} THEN 0
      ELSE CHOOSE i \in raising : \A j \in raising : i <= j

\* cut_sites once the to_remove indices are deleted, from index i on
RECURSIVE Retained(_, _, _, _)
Retained(sites, n_patterns, variants, i) ==
  IF i > Len(sites) THEN << >>
  ELSE (IF HasN(sites[i]) THEN << >>
        ELSE <<EvaluatedCut(sites[i], n_patterns, variants)>>)
       \o Retained(sites, n_patterns, variants, i + 1)

\* cut_sites as the exception leaves it: the sites before the one that raised
\* are updated in place, nothing is deleted yet
PartlyEvaluated(sites, n_patterns, variants, failing) ==
  [i \in 1..Len(sites) |->
     IF i < failing /\ ~HasN(sites[i])
     THEN EvaluatedCut(sites[i], n_patterns, variants)
     ELSE sites[i]]

(* ------------------------------ the program ---------------------------- *)

VARIABLES
  pc,                   \* the call main() makes next, "done" or "raised"
  sequence,             \* region[3], the sequence analysed
  min_flanking_length,
  max_flanking_length,
  pam,
  cut_sites,            \* the list of cut-site dictionaries
  simulated,            \* per cut site, what simulate_end_joining computed:
                        \* left_seq, right_seq, patterns (the list that
                        \* find_microhomologies returned), generated
                        \* (cut['pattern_list'] before the filter) and
                        \* retained (cut['pattern_list'] after it)
  exception             \* the exception that ended the run, "none" if none

vars == <<pc, sequence, min_flanking_length, max_flanking_length, pam,
          cut_sites, simulated, exception>>

\* the PAM motifs drawn: the default and a two-letter one
Pams == {<<"N", "G", "G">>, <<"G", "G">>}

\* the context drawn around the bases that vary: none, or enough T on
\* either side to hold a whole guide on both strands
Contexts == {<< >>, Repeat("T", GuideLen)}

\* the sequences drawn: an A/C stretch, a GG and a tail of T and N, within
\* a context
InputSequences ==
  {t \o u \o <<"G", "G">> \o v \o t : t \in Contexts,
                                      u \in SeqsUpTo({"A", "C"}, MaxUpstream),
                                      v \in SeqsUpTo({"T", "N"}, MaxDownstream)}

\* n_patterns as drawn: 1 and the default
PatternCounts == {1, 5}

\* variants as drawn: none, and one variant
VariantLists == {<< >>, <<[start |-> 0, end |-> 2]>>}

Init ==
  /\ pc = "get_cut_sites"
  /\ sequence \in InputSequences
  /\ min_flanking_length \in 0..MaxFlank
  /\ max_flanking_length \in 0..MaxFlank
  /\ pam \in Pams
  /\ cut_sites = << >>
  /\ simulated = << >>
  /\ exception = "none"

\* cut_sites = get_cut_sites(region, min_flanking_length, max_flanking_length, args.pam)
GetCutSites ==
  /\ pc = "get_cut_sites"
  /\ IF RaisesKeyError(sequence, pam)
     THEN /\ pc' = "raised"
          /\ exception' = "KeyError"
          /\ UNCHANGED cut_sites
     ELSE /\ pc' = "simulate_end_joining"
          /\ cut_sites' = get_cut_sites(SequenceRegion(sequence), min_flanking_length,
                                        max_flanking_length, pam)
          /\ UNCHANGED exception
  /\ UNCHANGED <<sequence, min_flanking_length, max_flanking_length, pam, simulated>>

\* cut_sites = simulate_end_joining(cut_sites, length_weight)
SimulateEndJoining ==
  /\ pc = "simulate_end_joining"
  /\ \E length_weight \in LengthWeights :
       /\ simulated' = [i \in 1..Len(cut_sites) |->
                          SimulateCut(cut_sites[i], length_weight)]
       /\ cut_sites' = [i \in 1..Len(cut_sites) |->
                          Update(cut_sites[i], [pattern_list |-> simulated'[i].retained])]
  /\ pc' = "evaluate_guides"
  /\ UNCHANGED <<sequence, min_flanking_length, max_flanking_length, pam, exception>>

\* cut_sites = evaluate_guides(cut_sites, args.n_patterns, variants)
EvaluateGuides ==
  /\ pc = "evaluate_guides"
  /\ \E n_patterns \in PatternCounts, variants \in VariantLists :
       LET failing == FirstRaising(cut_sites, n_patterns)
       IN  IF failing # 0
           THEN /\ pc' = "raised"
                /\ exception' = "ZeroDivisionError"
                /\ cut_sites' = PartlyEvaluated(cut_sites, n_patterns, variants, failing)
           ELSE /\ pc' = "done"
                /\ cut_sites' = Retained(cut_sites, n_patterns, variants, 1)
                /\ UNCHANGED exception
  /\ UNCHANGED <<sequence, min_flanking_length, max_flanking_length, pam, simulated>>

Next == GetCutSites \/ SimulateEndJoining \/ EvaluateGuides

Spec == Init /\ [][Next]_vars

(* --------------- simulate_end_joining on given cut sites --------------- *)

\* the bases of the arms drawn
ArmBases == {"A", "C"}

\* the cut site whose window is left_seq + right_seq, cut between the two: the
\* record break_dict builds for the PAM "N" matched one base after the cut of
\* the sequence left_seq + right_seq, with a max_flanking_length that covers
\* both arms, completed as get_cut_sites completes it
CutBetween(left_seq, right_seq) ==
  LET seq       == left_seq \o right_seq
      cut       == BreakRecord(seq, Len(left_seq) + 1, 1,
                               Max(Len(left_seq), Len(right_seq)), "+")
      break_abs == cut.break + 1
  IN  Update(cut, [break_abs |-> break_abs,
                   guide_loc |-> <<"sequence", break_abs - 17, break_abs + 3 + 1>>])

\* the cut sites that may precede the one drawn: none, or one whose window
\* holds unresolved bases
UnresolvedSites == {<< >>, <<CutBetween(<<"A", "N", "A">>, <<"A", "N">>)>>}

InitEJ ==
  /\ pc = "simulate_end_joining"
  /\ pam = <<"N">>
  /\ min_flanking_length = 0
  /\ \E left_seq \in SeqsUpTo(ArmBases, MaxLeft), right_seq \in SeqsUpTo(ArmBases, MaxRight),
        unresolved \in UnresolvedSites :
       /\ sequence = left_seq \o right_seq
       /\ max_flanking_length = Max(Len(left_seq), Len(right_seq))
       /\ cut_sites = unresolved \o <<CutBetween(left_seq, right_seq)>>
  /\ simulated = << >>
  /\ exception = "none"

NextEJ == SimulateEndJoining \/ EvaluateGuides

SpecEJ == InitEJ /\ [][NextEJ]_vars

(* ------------------------------ properties ----------------------------- *)

\* every index at which sub occurs in s, overlapping occurrences included
AllOccurrences(sub, s) == {i \in 0..Len(s) : OccursAt(sub, s, i)}

\* the index in the right arm at which an outcome's pattern starts, read off
\* the part of the right arm the outcome keeps
RightIndex(outcome, site) == Len(site.right_seq) - Len(outcome.right_seq)

\* the cut sites that carry a pattern_list
Simulated(site) == "pattern_list" \in DOMAIN site

\* simulate_end_joining has returned and evaluate_guides has not yet run:
\* cut_sites[i] and simulated[i] are the same site
JustSimulated == pc = "evaluate_guides"

\* C1: evaluate_guides never fails on a zero total score: a retained cut site
\* whose top-N scores sum to 0 (an empty outcome list included) gets
\* sum_score = 0 and a defined complete_score, and no error is raised.
C1_ZeroScoreIsHandled ==
  /\ exception # "ZeroDivisionError"
  /\ pc = "done" =>
       \A i \in 1..Len(cut_sites) :
         SumScore(cut_sites[i].top_patterns) = 0 =>
           /\ cut_sites[i].sum_score = 0
           /\ "complete_score" \in DOMAIN cut_sites[i]

\* C2: an unresolved base is not fatal: the pipeline get_cut_sites ->
\* simulate_end_joining -> evaluate_guides raises nothing on a sequence over
\* {A,C,G,T,N}, and no record it returns has an N in its window.
C2_UnresolvedBaseIsNotFatal ==
  /\ exception # "KeyError"
  /\ pc = "done" => \A i \in 1..Len(cut_sites) : ~HasN(cut_sites[i])

\* C3: whenever 0 <= min_flanking_length <= max_flanking_length, every record
\* of find_breaks has a window of length between 2*min_flanking_length and
\* 2*max_flanking_length.
C3_WindowLengthWithinFlanks ==
  (pc # "get_cut_sites" /\ min_flanking_length <= max_flanking_length) =>
    \A i \in 1..Len(cut_sites) :
      /\ 2 * min_flanking_length <= Len(cut_sites[i].seq)
      /\ Len(cut_sites[i].seq) <= 2 * max_flanking_length

\* C4: for each pattern of a cut site, an outcome is generated for every pair
\* (l, r) of an index l at which the pattern occurs in the left arm and an
\* index r at which it occurs in the right arm, overlapping occurrences
\* included.
C4_EveryOccurrencePairGenerated ==
  \A c \in 1..Len(simulated) :
    \A pattern \in Range(simulated[c].patterns) :
      \A l \in AllOccurrences(pattern, simulated[c].left_seq),
         r \in AllOccurrences(pattern, simulated[c].right_seq) :
        \E o \in Range(simulated[c].generated) :
          /\ o.pattern = pattern
          /\ o.left_seq_position = l
          /\ RightIndex(o, simulated[c]) = r

\* the substrings of left_seq of length 2 .. len(left_seq) that occur in right_seq
SharedSubstrings(left_seq, right_seq) ==
  {kmer \in {SubSeq(left_seq, i, j) : i \in 1..Len(left_seq), j \in 1..Len(left_seq)} :
     Len(kmer) >= 2 /\ Contains(right_seq, kmer)}

\* C5: find_microhomologies returns exactly the substrings of the left arm of
\* length >= 2, the whole left arm included, that occur in the right arm.
C5_ExactlyTheSharedSubstrings ==
  \A c \in 1..Len(simulated) :
    Range(simulated[c].patterns)
      = SharedSubstrings(simulated[c].left_seq, simulated[c].right_seq)

\* C6: an outcome generated from a pattern at index l of the left arm and
\* index r of the right arm deletes left_seq[l:] + right_seq[:r], of length
\* (len(left_seq) - l) + r, and is out of frame ("+") exactly when that
\* length is not a multiple of 3.
C6_DeletionAndFrameShift ==
  \A c \in 1..Len(simulated) :
    \A o \in Range(simulated[c].generated) :
      LET left_seq  == simulated[c].left_seq
          right_seq == simulated[c].right_seq
          l == o.left_seq_position
          r == RightIndex(o, simulated[c])
      IN  /\ OccursAt(o.pattern, left_seq, l)
          /\ OccursAt(o.pattern, right_seq, r)
          /\ o.deletion_seq = SubSeq(left_seq, l + 1, Len(left_seq)) \o SubSeq(right_seq, 1, r)
          /\ Len(o.deletion_seq) = (Len(left_seq) - l) + r
          /\ (o.frame_shift = "+") <=> (((Len(left_seq) - l) + r) % 3 # 0)

\* a site generated both an out-of-frame and an in-frame outcome
C6_Witness ==
  \E c \in 1..Len(simulated) :
    \E o1, o2 \in Range(simulated[c].generated) :
      o1.frame_shift = "+" /\ o2.frame_shift = "-"

\* C7: after simulate_end_joining no two outcomes of a site's pattern_list
\* have the same (pattern, left_seq_position, right_seq_position).
C7_NoDuplicateOutcomes ==
  \A c \in 1..Len(cut_sites) :
    Simulated(cut_sites[c]) =>
      LET pattern_list == cut_sites[c].pattern_list
      IN  \A i, j \in 1..Len(pattern_list) :
            (/\ pattern_list[i].pattern = pattern_list[j].pattern
             /\ pattern_list[i].left_seq_position = pattern_list[j].left_seq_position
             /\ pattern_list[i].right_seq_position = pattern_list[j].right_seq_position)
              => i = j

\* a site generated the same outcome more than once and retains outcomes
C7_Witness ==
  /\ JustSimulated
  /\ \E c \in 1..Len(simulated) :
       /\ Len(simulated[c].generated) > Cardinality(Range(simulated[c].generated))
       /\ cut_sites[c].pattern_list # << >>

\* C8: the guide of a record for the PAM hit at strand-local offset p is the
\* 20 bases upstream of the PAM followed by the PAM, 20 + len(pam) long.
C8_GuideIsSpacerPlusPam ==
  pc # "get_cut_sites" =>
    \A i \in 1..Len(cut_sites) :
      LET strand_sequence == IF cut_sites[i].strand = "+" THEN sequence
                             ELSE rev_seq(sequence)
          p == cut_sites[i].break + Len(pam)
      IN  /\ Len(cut_sites[i].guide) = GuideLen + Len(pam)
          /\ p >= GuideLen
          /\ cut_sites[i].guide = SubSeq(strand_sequence, p - GuideLen + 1, p + Len(pam))

\* C9: no retained outcome S is nested in another de-duplicated candidate P:
\* S's pattern a proper substring of P's, occurring in it at an offset o (any
\* offset at which it occurs) with S at P's position + o in both arms.
C9_NoNestedOutcomeRetained ==
  JustSimulated =>
    \A c \in 1..Len(simulated) :
      \A S \in Range(cut_sites[c].pattern_list), P \in Range(simulated[c].generated) :
        ~(/\ S.pattern # P.pattern
          /\ \E o \in AllOccurrences(S.pattern, P.pattern) :
               /\ S.left_seq_position = P.left_seq_position + o
               /\ S.right_seq_position = P.right_seq_position + o)

\* C10: the nested-match filter is idempotent: run again on the outcomes it
\* retained, compared among themselves, it discards nothing.
C10_FilterIsIdempotent ==
  \A c \in 1..Len(cut_sites) :
    Simulated(cut_sites[c]) =>
      FilterNested(cut_sites[c].pattern_list) = cut_sites[c].pattern_list

\* the filter discarded an outcome of a site and retained another
C10_Witness ==
  /\ JustSimulated
  /\ \E c \in 1..Len(simulated) :
       /\ Len(cut_sites[c].pattern_list) < Cardinality(Range(simulated[c].generated))
       /\ cut_sites[c].pattern_list # << >>

====
